---- MODULE Spec2Model ----
(***************************************************************************)
(* Weak-form EMH randomness tests over categorised equity price tables.    *)
(*                                                                         *)
(* The module models the two test drivers of the repository,               *)
(*   ljung_box_test  (EQUITIES_LJUNG_BOX_TEST.py)                          *)
(*   runs_test       (EQUITIES_RUNS_TEST.py)                               *)
(* run one after the other on the same input table with the same           *)
(* num_tickers_to_run argument.  The two functions share no state (each    *)
(* works on a copy of its group), so running them in sequence loses no     *)
(* behaviour of either.                                                    *)
(*                                                                         *)
(* Data representation                                                     *)
(*   - category and ticker names are integers, ordered as the names are    *)
(*     ordered by Python's sorted();                                       *)
(*   - a Date is an integer, 0 standing for a value pd.to_datetime cannot  *)
(*     parse;                                                              *)
(*   - a Close is a positive integer;                                      *)
(*   - a return is the exact fraction <<p[t] - p[t-1], p[t-1]>>;           *)
(*   - a float that may be NaN is a record [nan, val];                     *)
(*   - p-values are integers in units of 1/10000;                          *)
(*   - a Python dict is the sequence of its items in insertion order.      *)
(*                                                                         *)
(* Arithmetic is exact: the rounding of Python's floats is not modelled.   *)
(* Table printing and plot rendering change nothing the drivers return and *)
(* are left out, except for the data the plots are drawn from.             *)
(***************************************************************************)
EXTENDS Integers, Sequences, FiniteSets, TLC

VARIABLES
    columns,             \* all_stock_data.columns
    table,               \* rows of all_stock_data, in row order
    limit_arg,           \* the num_tickers_to_run argument of both calls
    prog,                \* "lb", "runs" or "end": the call in progress
    pc,                  \* position inside the call in progress
    num_tickers_to_run,  \* the local of that name (reassigned by the call)
    catIdx,              \* index of the category the outer loop is at
    category_tickers,    \* the (cut) ticker list of the current category
    tickIdx,             \* index of the ticker the inner loop is at
    lb_results,          \* results_by_category of ljung_box_test
    runs_results,        \* results_by_category of runs_test
    lb_status,           \* "pending", "running", "returned", "ValueError", "TypeError"
    runs_status,         \* the same for runs_test
    out,                 \* the diagnostics printed so far
    returns,             \* the local "returns" of the call in progress
    stat                 \* <<the locals of the runs statistic>>, once computed

vars == <<columns, table, limit_arg, prog, pc, num_tickers_to_run, catIdx,
          category_tickers, tickIdx, lb_results, runs_results, lb_status,
          runs_status, out, returns, stat>>

(***************************************************************************)
(* Program constants                                                       *)
(***************************************************************************)
required_columns == <<"Category", "Ticker", "Date", "Close">>

lags == <<1, 3, 5, 7, 10, 15, 20, 30, 45, 60>>

selected_lags == <<1, 10, 60>>

\* the categories of the explored tables, by their rank in sorted order
CategoryName == <<"Emerging", "Random", "Trend">>

\* the keys of the colors dict of plot_ljung_box_results
colors == {"Emerging", "Large-cap", "Mid-cap", "Random", "Small-cap"}

\* len(stock_data) < 20: the minimum number of rows of a processed group
MinObs == 20

\* the largest lag handed to acorr_ljungbox
MaxLag == 60

\* p_values['lag_60'] < 0.05, in units of 1/10000
Alpha == 500

(***************************************************************************)
(* Bounds of the explored inputs                                           *)
(***************************************************************************)
\* rows a series may have beyond the thresholds MinObs - 1 and MaxLag + 1
MaxExtra == 1

\* the largest integer limit tried as num_tickers_to_run
MaxLimit == 2

(***************************************************************************)
(* Generic helpers                                                         *)
(***************************************************************************)
Range(s) == {s[i] : i \in DOMAIN s}

Min(S) == CHOOSE x \in S : \A y \in S : x <= y

RECURSIVE SetToSortedSeq(_)
\* sorted(S) for a set of integers
SetToSortedSeq(S) ==
    IF S = {} THEN <<>>
    ELSE LET m == Min(S) IN <<m>> \o SetToSortedSeq(S \ {m})

\* Python's seq[:k] for an integer k of either sign
SliceTo(s, k) ==
    LET n == Len(s)
        e == IF k >= 0 THEN (IF k < n THEN k ELSE n)
                       ELSE (IF n + k > 0 THEN n + k ELSE 0)
    IN  SubSeq(s, 1, e)

(***************************************************************************)
(* Exact fractions and floats                                              *)
(***************************************************************************)
Frac(a, b) == [num |-> a, den |-> b]

RECURSIVE FracGT(_, _, _, _)
\* a/b > c/d for a, c >= 0 and b, d > 0, without forming the cross products
FracGT(a, b, c, d) ==
    LET qa == a \div b
        qc == c \div d
        ra == a % b
        rc == c % d
    IN  IF qa # qc THEN qa > qc
        ELSE IF ra = 0 THEN FALSE
        ELSE IF rc = 0 THEN TRUE
        ELSE FracGT(d, rc, b, ra)

NaN == [nan |-> TRUE, val |-> 0]

Float(v) == [nan |-> FALSE, val |-> v]

\* x < y on floats: every comparison with NaN is False
FloatLess(x, y) == ~x.nan /\ ~y.nan /\ x.val < y.val

(***************************************************************************)
(* Grouping: all_stock_data.groupby(['Category', 'Ticker'])                *)
(***************************************************************************)
GroupKeys(t) == {<<t[i].Category, t[i].Ticker>> : i \in DOMAIN t}

\* grouped_data[(category, ticker)]: the rows of the group, in row order
grouped_data(t, category, ticker) ==
    LET InGroup(r) == r.Category = category /\ r.Ticker = ticker
    IN  SelectSeq(t, InGroup)

\* the categories without sorted(), taken in descending order
categories_Unsorted(t) ==
    LET asc == SetToSortedSeq({key[1] : key \in GroupKeys(t)})
    IN  [i \in DOMAIN asc |-> asc[Len(asc) + 1 - i]]

\* sorted(set(category for category, _ in grouped_data.keys()))
categories(t) == SetToSortedSeq({key[1] : key \in GroupKeys(t)})

\* sorted([ticker for cat, ticker in grouped_data.keys() if cat == category])
SortedTickers(t, category) ==
    SetToSortedSeq({key[2] : key \in {k \in GroupKeys(t) : k[1] = category}})

(***************************************************************************)
(* The ticker limit                                                        *)
(*   kind "all"    : the string 'all'                                      *)
(*   kind "int"    : a Python int, val                                     *)
(*   kind "numstr" : a string int() parses, to val                         *)
(*   kind "badstr" : a string int() rejects with ValueError                *)
(*   kind "none"   : None, which int() rejects with TypeError              *)
(***************************************************************************)
LimitAll == [kind |-> "all", val |-> 0]

\* the cut made for one category only: the local is 'all' again afterwards
ApplyLimit_FirstOnly(num, tickers) ==
    IF num.kind = "all"
    THEN [num |-> num, tickers |-> tickers, raised |-> "", invalid |-> FALSE]
    ELSE IF num.kind \in {"int", "numstr"}
    THEN [num |-> LimitAll,
          tickers |-> SliceTo(tickers, num.val), raised |-> "", invalid |-> FALSE]
    ELSE IF num.kind = "badstr"
    THEN [num |-> LimitAll, tickers |-> tickers, raised |-> "", invalid |-> TRUE]
    ELSE [num |-> num, tickers |-> tickers, raised |-> "TypeError", invalid |-> FALSE]

\* The outcome of "if num_tickers_to_run != 'all': try: ... except ValueError"
\* on the sorted ticker list: the new local, the list, and what was raised
\* or printed.
ApplyLimit(num, tickers) ==
    IF num.kind = "all"
    THEN [num |-> num, tickers |-> tickers, raised |-> "", invalid |-> FALSE]
    ELSE IF num.kind \in {"int", "numstr"}
    THEN [num |-> [kind |-> "int", val |-> num.val],
          tickers |-> SliceTo(tickers, num.val), raised |-> "", invalid |-> FALSE]
    ELSE IF num.kind = "badstr"
    THEN [num |-> LimitAll, tickers |-> tickers, raised |-> "", invalid |-> TRUE]
    ELSE [num |-> num, tickers |-> tickers, raised |-> "TypeError", invalid |-> FALSE]

(***************************************************************************)
(* Returns                                                                 *)
(***************************************************************************)
\* pd.to_datetime(stock_data['Date']) raises on a value it cannot parse
DateUnparseable(rows) == \E i \in DOMAIN rows : rows[i].Date = 0

\* prices.pct_change().dropna(), the prices taken in the group's row order
Returns(rows) ==
    [i \in 1..(Len(rows) - 1) |->
        Frac(rows[i + 1].Close - rows[i].Close, rows[i].Close)]

(***************************************************************************)
(* The runs test of one return series                                      *)
(***************************************************************************)
\* the sign with a zero return counted as positive (r >= 0)
Sign_ZeroPositive(r) == IF r.num >= 0 THEN "+" ELSE "-"

Sign(r) == IF r.num > 0 THEN "+" ELSE "-"

Signs(rets) == [i \in DOMAIN rets |-> Sign(rets[i])]

CountPlus(signs) == Cardinality({i \in DOMAIN signs : signs[i] = "+"})

\* the run count without the first run
CountRuns_NoFirst(signs) ==
    Cardinality({i \in 2..Len(signs) : signs[i] # signs[i - 1]})

CountRuns(signs) ==
    1 + Cardinality({i \in 2..Len(signs) : signs[i] # signs[i - 1]})

\* variance = 2 n1 n2 (2 n1 n2 - n1 - n2) / (n^2 (n-1)) if n > 1 else 0
RunsVariance(n1, n2) ==
    LET n == n1 + n2
    IN  IF n > 1
        THEN Frac(2 * n1 * n2 * (2 * n1 * n2 - n1 - n2), n * n * (n - 1))
        ELSE Frac(0, 1)

\* z = (runs - expected_runs) / sqrt(variance) if variance > 0 else 0, kept
\* as its sign and its square: with D = runs n - 2 n1 n2 - n,
\* runs - expected_runs = D / n and z^2 = D^2 (n-1) / (2 n1 n2 (2 n1 n2 - n)).
ZScore(runs, n1, n2) ==
    LET n == n1 + n2
        v == RunsVariance(n1, n2)
        D == runs * n - 2 * n1 * n2 - n
    IN  IF v.num > 0
        THEN [sign |-> IF D > 0 THEN 1 ELSE IF D < 0 THEN -1 ELSE 0,
              sq   |-> Frac(D * D * (n - 1), 2 * n1 * n2 * (2 * n1 * n2 - n))]
        ELSE [sign |-> 0, sq |-> Frac(0, 1)]

\* 'Non-random' if abs(z) > 1.96 else 'Random'   (1.96^2 = 2401/625)
RunsVerdict(z) ==
    IF FracGT(z.sq.num, z.sq.den, 2401, 625) THEN "Non-random" ELSE "Random"

\* the locals of the runs test after lines 127-136
RunsStatistic(rets) ==
    LET signs == Signs(rets)
        n1 == CountPlus(signs)
        n2 == Len(signs) - n1
        n == n1 + n2
        runs == CountRuns(signs)
        z == ZScore(runs, n1, n2)
    IN  [signs |-> signs, n1 |-> n1, n2 |-> n2, n |-> n,
         expected_runs |-> IF n > 0 THEN Frac(2 * n1 * n2 + n, n) ELSE Frac(0, 1),
         runs |-> runs, variance |-> RunsVariance(n1, n2), z |-> z,
         randomness |-> RunsVerdict(z)]

\* [ticker, runs, expected_runs, z, randomness]
RunsRecord(ticker, rets) ==
    LET st == RunsStatistic(rets)
    IN  [ticker |-> ticker, runs |-> st.runs, expected_runs |-> st.expected_runs,
         z |-> st.z, randomness |-> st.randomness]

\* the try body with the length check off by one (len(stock_data) < 19)
RunsTicker_OffByOne(ticker, rows) ==
    IF Len(rows) < MinObs - 1 THEN [tag |-> "skip"]
    ELSE IF DateUnparseable(rows) THEN [tag |-> "error"]
    ELSE [tag |-> "record", rec |-> RunsRecord(ticker, Returns(rows))]

\* The try body of runs_test for one group: "skip" (fewer than 20 rows),
\* "error" (an exception, caught) or "record".
RunsTicker(ticker, rows) ==
    IF Len(rows) < MinObs THEN [tag |-> "skip"]
    ELSE IF DateUnparseable(rows) THEN [tag |-> "error"]
    ELSE [tag |-> "record", rec |-> RunsRecord(ticker, Returns(rows))]

(***************************************************************************)
(* The Ljung-Box test of one return series                                 *)
(*                                                                         *)
(* statsmodels' acorr_ljungbox is a library: its numbers are not computed  *)
(* here.  What the model keeps of it is                                    *)
(*   - it raises when the series has no more than max(lags) elements       *)
(*     (the autocorrelations up to lag 60 need n >= 61);                   *)
(*   - on a series of zero variance every autocorrelation is 0/0, so every *)
(*     statistic and every p-value is NaN, and nothing is raised;          *)
(*   - otherwise it returns one statistic and one p-value per lag, any of  *)
(*     the sampled values below.                                           *)
(***************************************************************************)
LagSet == Range(lags)

ZeroVariance(rets) ==
    \A i \in DOMAIN rets :
        rets[i].num * rets[1].den = rets[1].num * rets[i].den

\* sampled (lb_stat, lb_pvalue) cells: p just below 0.05 and p = 0.05
LBCells ==
    {[lb_stat |-> Float(7912), lb_pvalue |-> Float(Alpha - 1)],
     [lb_stat |-> Float(7908), lb_pvalue |-> Float(Alpha)]}

\* sampled result frames: one cell for lag 60, one shared by the lags
\* 10..45, one shared by the lags 1..7
LBFrames ==
    {[lag \in LagSet |-> IF lag = MaxLag THEN a ELSE IF lag >= 10 THEN b ELSE c] :
        a \in LBCells, b \in LBCells, c \in LBCells}

NaNFrame == [lag \in LagSet |-> [lb_stat |-> NaN, lb_pvalue |-> NaN]]

\* the possible outcomes of acorr_ljungbox(returns, lags=lags, return_df=True)
acorr_ljungbox(rets) ==
    IF Len(rets) <= MaxLag THEN {[raised |-> TRUE, frame |-> NaNFrame]}
    ELSE IF ZeroVariance(rets) THEN {[raised |-> FALSE, frame |-> NaNFrame]}
    ELSE {[raised |-> FALSE, frame |-> f] : f \in LBFrames}

\* the decision taken at lag 45 in the place of lag 60
LBVerdict_Lag45(p_values) ==
    IF FloatLess(p_values[45], Float(Alpha)) THEN "Non-random" ELSE "Random"

\* 'Non-random' if p_values['lag_60'] < 0.05 else 'Random'
LBVerdict(p_values) ==
    IF FloatLess(p_values[MaxLag], Float(Alpha)) THEN "Non-random" ELSE "Random"

\* [ticker, lb_stats, p_values, randomness]
LBRecord(ticker, frame) ==
    LET lb_stats == [lag \in LagSet |-> frame[lag].lb_stat]
        p_values == [lag \in LagSet |-> frame[lag].lb_pvalue]
    IN  [ticker |-> ticker, lb_stats |-> lb_stats, p_values |-> p_values,
         randomness |-> LBVerdict(p_values)]

\* The possible outcomes of the try body of ljung_box_test for one group:
\* "skip" (fewer than 20 rows), "error" (an exception, caught) or "record".
LBTicker(ticker, rows) ==
    IF Len(rows) < MinObs THEN {[tag |-> "skip"]}
    ELSE IF DateUnparseable(rows) THEN {[tag |-> "error"]}
    ELSE {IF o.raised THEN [tag |-> "error"]
                      ELSE [tag |-> "record", rec |-> LBRecord(ticker, o.frame)] :
            o \in acorr_ljungbox(Returns(rows))}

(***************************************************************************)
(* results_by_category, a dict in insertion order                          *)
(***************************************************************************)
HasKey(results, category) == \E i \in DOMAIN results : results[i].category = category

\* if category not in results: results[category] = []
\* results[category].append(rec)
AppendResult(results, category, rec) ==
    IF HasKey(results, category)
    THEN [i \in DOMAIN results |->
            IF results[i].category = category
            THEN [results[i] EXCEPT !.recs = Append(@, rec)]
            ELSE results[i]]
    ELSE Append(results, [category |-> category, recs |-> <<rec>>])

Msg(fn, kind, who) == [fn |-> fn, kind |-> kind, who |-> who]

(***************************************************************************)
(* The explored inputs                                                     *)
(*                                                                         *)
(* A series is given by the shape of its prices over the dates 1..len, the *)
(* order its rows have in the table, and whether its first row carries an  *)
(* unparseable date.                                                       *)
(***************************************************************************)
Kinds == {"flat", "up", "zigzag", "stair"}

Orders == {"asc", "rev", "swap"}

\* the close of a series on date d
CloseOn(kind, d) ==
    IF kind = "flat" THEN 100
    ELSE IF kind = "up" THEN 100 + d
    ELSE IF kind = "zigzag" THEN 100 + (d % 2)
    ELSE 100 + (d \div 2)

\* the date of the i-th row
DateAt(order, len, i) ==
    IF order = "asc" THEN i
    ELSE IF order = "rev" THEN len + 1 - i
    ELSE IF i = len - 1 THEN len
    ELSE IF i = len THEN len - 1
    ELSE i

SeriesRows(category, ticker, s) ==
    [i \in 1..s.len |->
        LET d == DateAt(s.order, s.len, i)
        IN  [Category |-> category, Ticker |-> ticker,
             Date |-> IF s.bad /\ i = 1 THEN 0 ELSE d,
             Close |-> CloseOn(s.kind, d)]]

Lens ==
    ((MinObs - 1)..(MinObs - 1 + MaxExtra)) \cup ((MaxLag + 1)..(MaxLag + 1 + MaxExtra))

Spec4(kind, len, order, bad) == [kind |-> kind, len |-> len, order |-> order, bad |-> bad]

\* every shape, length and row order, and the unparseable date on ascending rows
WideSpecs ==
    {Spec4(k, l, o, FALSE) : k \in Kinds, l \in Lens, o \in Orders}
    \cup {Spec4(k, l, "asc", TRUE) : k \in Kinds, l \in Lens}

\* a series too short, one long enough for the runs test only, one that
\* fails in both tests, one of zero variance long enough for both
DeepSpecs ==
    {Spec4("up", MinObs - 1, "asc", FALSE),
     Spec4("zigzag", MinObs, "asc", FALSE),
     Spec4("up", MinObs, "asc", TRUE),
     Spec4("flat", MaxLag + 2, "asc", FALSE)}

RECURSIVE Concat(_)
Concat(ss) == IF ss = <<>> THEN <<>> ELSE Head(ss) \o Concat(Tail(ss))

Reverse(s) == [i \in DOMAIN s |-> s[Len(s) + 1 - i]]

\* one category with one ticker
WideTables == {SeriesRows(1, 1, s) : s \in WideSpecs}

\* two categories of two tickers each, the groups laid out in key order or
\* in reverse key order
DeepTables ==
    {Concat(IF rev THEN Reverse(g) ELSE g) :
        g \in {<<SeriesRows(1, 1, a), SeriesRows(1, 2, b),
                 SeriesRows(2, 1, c), SeriesRows(2, 2, d)>> :
                    a \in DeepSpecs, b \in DeepSpecs, c \in DeepSpecs, d \in DeepSpecs},
        rev \in BOOLEAN}

\* series long enough for the Ljung-Box test
LongSpecs ==
    {Spec4("up", MaxLag + 2, "asc", FALSE),
     Spec4("zigzag", MaxLag + 2, "rev", FALSE),
     Spec4("flat", MaxLag + 2, "asc", FALSE)}

\* a category of two long series, and a category outside the colors dict
\* with one series
LongTables ==
    {SeriesRows(1, 1, a) \o SeriesRows(3, 1, c) \o SeriesRows(1, 2, b) :
        a \in LongSpecs, b \in LongSpecs,
        c \in {Spec4("stair", MaxLag + 2, "asc", FALSE),
                Spec4("stair", MaxLag + 1, "asc", FALSE)}}

AllColumns == Range(required_columns)

Limits ==
    {LimitAll, [kind |-> "badstr", val |-> 0], [kind |-> "none", val |-> 0],
     [kind |-> "numstr", val |-> 1]}
    \cup {[kind |-> "int", val |-> v] : v \in (-1)..MaxLimit}

Inputs ==
    \* every ticker shape, all tickers processed
    {[columns |-> AllColumns, table |-> t, limit |-> LimitAll] : t \in WideTables}
    \cup {[columns |-> AllColumns, table |-> t, limit |-> l] :
            t \in LongTables, l \in {LimitAll, [kind |-> "int", val |-> 1]}}
    \* several tickers and categories under every limit
    \cup {[columns |-> AllColumns, table |-> t, limit |-> l] :
            t \in DeepTables, l \in Limits}
    \* a required column missing (the table's fields of that name are never read)
    \cup {[columns |-> (AllColumns \ {c}) \cup x, table |-> t, limit |-> l] :
            c \in AllColumns, x \in {{}, {"Volume"}},
            t \in {SeriesRows(1, 1, Spec4("up", MaxLag + 2, "asc", FALSE))},
            l \in {LimitAll, [kind |-> "none", val |-> 0]}}

Init ==
    \E in \in Inputs :
        /\ columns = in.columns
        /\ table = in.table
        /\ limit_arg = in.limit
        /\ prog = "lb"
        /\ pc = "validate"
        /\ num_tickers_to_run = in.limit
        /\ catIdx = 0
        /\ category_tickers = <<>>
        /\ tickIdx = 0
        /\ lb_results = <<>>
        /\ runs_results = <<>>
        /\ lb_status = "pending"
        /\ runs_status = "pending"
        /\ out = <<>>
        /\ returns = <<>>
        /\ stat = <<>>

(***************************************************************************)
(* Steps shared by the two drivers (their code is the same line for line)  *)
(***************************************************************************)
\* the validation with any() in the place of all(): it raises only when
\* every required column is missing
MissingColumn_Any(cols) == \A i \in DOMAIN required_columns : required_columns[i] \notin cols

\* not all(col in all_stock_data.columns for col in required_columns)
MissingColumn(cols) == \E i \in DOMAIN required_columns : required_columns[i] \notin cols

\* "break" in the place of "continue" in the except clause: an error ends
\* the category's ticker loop
NextTicker_Break(tag, i) == IF tag = "error" THEN Len(category_tickers) + 1 ELSE i + 1

\* "continue" at the end of the try body and of each except clause: the
\* inner loop goes on with the next ticker whatever the outcome was
NextTicker(tag, i) == i + 1

\* the category the outer loop is at
Category == categories(table)[catIdx]

(***************************************************************************)
(* ljung_box_test                                                          *)
(***************************************************************************)
\* lines 23-41: validation, grouping, the sorted category list
LBValidate ==
    /\ prog = "lb" /\ pc = "validate"
    /\ IF MissingColumn(columns)
       THEN /\ lb_status' = "ValueError"
            /\ prog' = "runs"
            /\ UNCHANGED <<pc, catIdx, lb_results>>
       ELSE /\ lb_status' = "running"
            /\ pc' = "category"
            /\ catIdx' = 1
            /\ lb_results' = <<>>
            /\ UNCHANGED prog
    /\ UNCHANGED <<columns, table, limit_arg, num_tickers_to_run, category_tickers,
                   tickIdx, runs_results, runs_status, out, returns, stat>>

\* lines 44-57: the head of the category loop and the ticker limit
LBEnterCategory ==
    /\ prog = "lb" /\ pc = "category" /\ catIdx <= Len(categories(table))
    /\ LET lim == ApplyLimit(num_tickers_to_run, SortedTickers(table, Category))
       IN  IF lim.raised # ""
           THEN /\ lb_status' = lim.raised
                /\ prog' = "runs"
                /\ pc' = "validate"
                /\ num_tickers_to_run' = limit_arg
                /\ UNCHANGED <<category_tickers, tickIdx, out>>
           ELSE /\ num_tickers_to_run' = lim.num
                /\ category_tickers' = lim.tickers
                /\ tickIdx' = 1
                /\ pc' = "ticker"
                /\ out' = IF lim.invalid
                          THEN Append(out, Msg("lb", "invalid_limit", Category))
                          ELSE out
                /\ UNCHANGED <<prog, lb_status>>
    /\ UNCHANGED <<columns, table, limit_arg, catIdx, lb_results, runs_results,
                   runs_status, returns, stat>>

\* lines 59-94: one iteration of the ticker loop
LBProcessTicker ==
    /\ prog = "lb" /\ pc = "ticker" /\ tickIdx <= Len(category_tickers)
    /\ LET ticker == category_tickers[tickIdx]
           rows == grouped_data(table, Category, ticker)
       IN  \E o \in LBTicker(ticker, rows) :
             /\ returns' = IF Len(rows) < MinObs \/ DateUnparseable(rows)
                           THEN returns
                           ELSE Returns(rows)
             /\ lb_results' = IF o.tag = "record"
                              THEN AppendResult(lb_results, Category, o.rec)
                              ELSE lb_results
             /\ out' = IF o.tag = "skip"
                       THEN Append(out, Msg("lb", "insufficient", ticker))
                       ELSE IF o.tag = "error"
                       THEN Append(out, Msg("lb", "error", ticker))
                       ELSE out
             /\ tickIdx' = NextTicker(o.tag, tickIdx)
    /\ UNCHANGED <<columns, table, limit_arg, prog, pc, num_tickers_to_run, catIdx,
                   category_tickers, runs_results, lb_status, runs_status, stat>>

\* lines 96-102: the category's table, or the notice that it has none
LBEndCategory ==
    /\ prog = "lb" /\ pc = "ticker" /\ tickIdx > Len(category_tickers)
    /\ out' = IF HasKey(lb_results, Category)
              THEN out
              ELSE Append(out, Msg("lb", "no_valid_data", Category))
    /\ catIdx' = catIdx + 1
    /\ pc' = "category"
    /\ UNCHANGED <<columns, table, limit_arg, prog, num_tickers_to_run,
                   category_tickers, tickIdx, lb_results, runs_results, lb_status,
                   runs_status, returns, stat>>

\* line 104: return results_by_category
LBReturn ==
    /\ prog = "lb" /\ pc = "category" /\ catIdx > Len(categories(table))
    /\ lb_status' = "returned"
    /\ prog' = "runs"
    /\ pc' = "validate"
    /\ num_tickers_to_run' = limit_arg
    /\ UNCHANGED <<columns, table, limit_arg, catIdx, category_tickers, tickIdx,
                   lb_results, runs_results, runs_status, out, returns, stat>>

(***************************************************************************)
(* runs_test                                                               *)
(***************************************************************************)
\* lines 76-91
RunsValidate ==
    /\ prog = "runs" /\ pc = "validate"
    /\ IF MissingColumn(columns)
       THEN /\ runs_status' = "ValueError"
            /\ prog' = "end"
            /\ UNCHANGED <<pc, catIdx, runs_results, returns>>
       ELSE /\ runs_status' = "running"
            /\ pc' = "category"
            /\ catIdx' = 1
            /\ runs_results' = <<>>
            /\ returns' = <<>>
            /\ UNCHANGED prog
    /\ UNCHANGED <<columns, table, limit_arg, num_tickers_to_run, category_tickers,
                   tickIdx, lb_results, lb_status, out, stat>>

\* lines 94-108
RunsEnterCategory ==
    /\ prog = "runs" /\ pc = "category" /\ catIdx <= Len(categories(table))
    /\ LET lim == ApplyLimit(num_tickers_to_run, SortedTickers(table, Category))
       IN  IF lim.raised # ""
           THEN /\ runs_status' = lim.raised
                /\ prog' = "end"
                /\ UNCHANGED <<pc, num_tickers_to_run, category_tickers, tickIdx, out>>
           ELSE /\ num_tickers_to_run' = lim.num
                /\ category_tickers' = lim.tickers
                /\ tickIdx' = 1
                /\ pc' = "ticker"
                /\ out' = IF lim.invalid
                          THEN Append(out, Msg("runs", "invalid_limit", Category))
                          ELSE out
                /\ UNCHANGED <<prog, runs_status>>
    /\ UNCHANGED <<columns, table, limit_arg, catIdx, lb_results, runs_results,
                   lb_status, returns, stat>>

\* lines 110-151
RunsProcessTicker ==
    /\ prog = "runs" /\ pc = "ticker" /\ tickIdx <= Len(category_tickers)
    /\ LET ticker == category_tickers[tickIdx]
           rows == grouped_data(table, Category, ticker)
           o == RunsTicker(ticker, rows)
       IN  /\ returns' = IF o.tag = "record" THEN Returns(rows) ELSE returns
           /\ stat' = IF o.tag = "record" THEN <<RunsStatistic(Returns(rows))>> ELSE stat
           /\ runs_results' = IF o.tag = "record"
                              THEN AppendResult(runs_results, Category, o.rec)
                              ELSE runs_results
           /\ out' = IF o.tag = "skip"
                     THEN Append(out, Msg("runs", "insufficient", ticker))
                     ELSE IF o.tag = "error"
                     THEN Append(out, Msg("runs", "error", ticker))
                     ELSE out
           /\ tickIdx' = NextTicker(o.tag, tickIdx)
    /\ UNCHANGED <<columns, table, limit_arg, prog, pc, num_tickers_to_run, catIdx,
                   category_tickers, lb_results, lb_status, runs_status>>

\* lines 153-159
RunsEndCategory ==
    /\ prog = "runs" /\ pc = "ticker" /\ tickIdx > Len(category_tickers)
    /\ out' = IF HasKey(runs_results, Category)
              THEN out
              ELSE Append(out, Msg("runs", "no_valid_data", Category))
    /\ catIdx' = catIdx + 1
    /\ pc' = "category"
    /\ UNCHANGED <<columns, table, limit_arg, prog, num_tickers_to_run,
                   category_tickers, tickIdx, lb_results, runs_results, lb_status,
                   runs_status, returns, stat>>

\* lines 161-162: the box plot (which reads the results and changes nothing
\* of them) and the return
RunsReturn ==
    /\ prog = "runs" /\ pc = "category" /\ catIdx > Len(categories(table))
    /\ runs_status' = "returned"
    /\ prog' = "end"
    /\ out' = IF runs_results = <<>>
              THEN Append(out, Msg("runs", "no_plot_data", 0))
              ELSE out
    /\ UNCHANGED <<columns, table, limit_arg, pc, num_tickers_to_run, catIdx,
                   category_tickers, tickIdx, lb_results, runs_results, lb_status,
                   returns, stat>>

Next ==
    \/ LBValidate
    \/ LBEnterCategory
    \/ LBProcessTicker
    \/ LBEndCategory
    \/ LBReturn
    \/ RunsValidate
    \/ RunsEnterCategory
    \/ RunsProcessTicker
    \/ RunsEndCategory
    \/ RunsReturn

Spec == Init /\ [][Next]_vars

(***************************************************************************)
(* The statistic block of runs_test on its own: lines 127-136 applied to   *)
(* every short return series over a negative, a zero and a positive return *)
(***************************************************************************)
\* the longest return series of the exhaustive check
MaxN == 5

RetVals == {Frac(-1, 2), Frac(0, 1), Frac(1, 2)}

StatInit ==
    /\ returns \in UNION {[1..n -> RetVals] : n \in 0..MaxN}
    /\ stat = <<>>
    /\ prog = "stat"
    /\ pc = "stat"
    /\ columns = AllColumns
    /\ table = <<>>
    /\ limit_arg = LimitAll
    /\ num_tickers_to_run = LimitAll
    /\ catIdx = 0
    /\ category_tickers = <<>>
    /\ tickIdx = 0
    /\ lb_results = <<>>
    /\ runs_results = <<>>
    /\ lb_status = "pending"
    /\ runs_status = "pending"
    /\ out = <<>>

StatStep ==
    /\ prog = "stat" /\ stat = <<>>
    /\ stat' = <<RunsStatistic(returns)>>
    /\ UNCHANGED <<columns, table, limit_arg, prog, pc, num_tickers_to_run, catIdx,
                   category_tickers, tickIdx, lb_results, runs_results, lb_status,
                   runs_status, out, returns>>

SpecStat == StatInit /\ [][StatStep]_vars

(***************************************************************************)
(* The per-category summaries                                              *)
(***************************************************************************)
Keys(results) == {results[i].category : i \in DOMAIN results}

Recs(results, category) ==
    IF HasKey(results, category)
    THEN results[CHOOSE i \in DOMAIN results : results[i].category = category].recs
    ELSE <<>>

\* lines 134-153 of plot_ljung_box_results: the rows of plot_data
plot_data(results) ==
    LET cats == SetToSortedSeq(Keys(results))
        RowsOf(category) ==
            LET recs == Recs(results, category)
                total == Len(recs)
                Row(lag) ==
                    LET significant ==
                            Cardinality({i \in DOMAIN recs :
                                FloatLess(recs[i].p_values[lag], Float(Alpha))})
                    IN  [Category |-> category, Lag |-> lag,
                         Significant |-> Frac(significant, total),
                         Non_significant |-> Frac(total - significant, total),
                         Num_Companies |-> total]
            IN  IF CategoryName[category] \notin colors \/ total <= 0 THEN <<>>
                ELSE [j \in DOMAIN selected_lags |-> Row(selected_lags[j])]
    IN  Concat([i \in DOMAIN cats |-> RowsOf(cats[i])])

\* line 21 of plot_zscore_boxplot: the z-scores of each category with results
all_z_scores(results) ==
    LET kept == SelectSeq(results, LAMBDA item : item.recs # <<>>)
    IN  [i \in DOMAIN kept |->
            [category |-> kept[i].category,
             z |-> [j \in DOMAIN kept[i].recs |-> kept[i].recs[j].z]]]

(***************************************************************************)
(* Properties                                                              *)
(***************************************************************************)
RowsOfKey(key) == grouped_data(table, key[1], key[2])

TickerSet(results, category) ==
    {Recs(results, category)[i].ticker : i \in DOMAIN Recs(results, category)}

InResults(results, key) == key[2] \in TickerSet(results, key[1])

Printed(fn, kind, who) == \E i \in DOMAIN out : out[i] = Msg(fn, kind, who)

BothReturned == prog = "end" /\ lb_status = "returned" /\ runs_status = "returned"

\* C1: when a required column is missing, both calls raise ValueError before
\* any grouping or ticker processing; no result set is built or returned and
\* nothing else is printed.
C1_MissingColumnFailsFast ==
    (AllColumns \ columns # {}) =>
        /\ lb_status \in {"pending", "ValueError"}
        /\ runs_status \in {"pending", "ValueError"}
        /\ (prog # "lb" => lb_status = "ValueError")
        /\ (prog = "end" => runs_status = "ValueError")
        /\ lb_results = <<>> /\ runs_results = <<>>
        /\ catIdx = 0 /\ tickIdx = 0 /\ category_tickers = <<>>
        /\ out = <<>>

C1_Witness ==
    /\ prog = "end"
    /\ "Close" \notin columns
    /\ lb_status = "ValueError" /\ runs_status = "ValueError"

\* C2: a group with fewer than 20 rows is in neither result set, and neither
\* the Ljung-Box plot data nor the box-plot data of its category counts it.
C2_ShortTickerSkipped ==
    \A key \in GroupKeys(table) :
        Len(RowsOfKey(key)) < 20 =>
            /\ ~InResults(lb_results, key)
            /\ ~InResults(runs_results, key)
            /\ \A i \in DOMAIN plot_data(lb_results) :
                 LET row == plot_data(lb_results)[i]
                 IN  row.Category = key[1] =>
                        row.Num_Companies =
                            Cardinality(TickerSet(lb_results, key[1]) \ {key[2]})
            /\ \A i \in DOMAIN all_z_scores(runs_results) :
                 LET box == all_z_scores(runs_results)[i]
                 IN  box.category = key[1] =>
                        Len(box.z) =
                            Cardinality(TickerSet(runs_results, key[1]) \ {key[2]})

C2_Witness ==
    /\ BothReturned
    /\ \E key \in GroupKeys(table), other \in GroupKeys(table) :
         /\ Len(RowsOfKey(key)) = 19
         /\ other[1] = key[1]
         /\ InResults(lb_results, other) /\ InResults(runs_results, other)
         /\ Printed("lb", "insufficient", key[2])
         /\ Printed("runs", "insufficient", key[2])
         /\ plot_data(lb_results) # <<>>

\* C3 (as claimed): after both calls on the same table, a ticker is in the
\* Ljung-Box result set exactly when it is in the runs result set.
C3_BothVerdictsOrNone ==
    BothReturned =>
        \A key \in GroupKeys(table) :
            InResults(lb_results, key) <=> InResults(runs_results, key)

(***************************************************************************)
(* What a run is expected to return, written as a function of the table    *)
(***************************************************************************)
TickerSeq(recs) == [i \in DOMAIN recs |-> recs[i].ticker]

\* the outcome of the whole try body, per driver
RunsOutcome(t, key) == RunsTicker(key[2], grouped_data(t, key[1], key[2])).tag

LBOutcome(t, key) ==
    LET os == LBTicker(key[2], grouped_data(t, key[1], key[2]))
    IN  IF [tag |-> "skip"] \in os THEN "skip"
        ELSE IF [tag |-> "error"] \in os THEN "error"
        ELSE "record"

\* the table without the rows of the groups in bad
Without(t, bad) == SelectSeq(t, LAMBDA r : <<r.Category, r.Ticker>> \notin bad)

RECURSIVE RunsRecsOf(_, _, _)
RunsRecsOf(t, category, tickers) ==
    IF tickers = <<>> THEN <<>>
    ELSE LET o == RunsTicker(Head(tickers), grouped_data(t, category, Head(tickers)))
         IN  (IF o.tag = "record" THEN <<o.rec>> ELSE <<>>)
                \o RunsRecsOf(t, category, Tail(tickers))

\* the result set of runs_test on table t under limit lim
ExpectedRuns(t, lim) ==
    LET cats == categories(t)
        items == [i \in DOMAIN cats |->
                    [category |-> cats[i],
                     recs |-> RunsRecsOf(t, cats[i],
                                ApplyLimit(lim, SortedTickers(t, cats[i])).tickers)]]
    IN  SelectSeq(items, LAMBDA item : item.recs # <<>>)

\* the tickers of the result set of ljung_box_test on table t under limit lim
ExpectedLBTickers(t, lim) ==
    LET cats == categories(t)
        items == [i \in DOMAIN cats |->
                    [category |-> cats[i],
                     tickers |-> SelectSeq(
                        ApplyLimit(lim, SortedTickers(t, cats[i])).tickers,
                        LAMBDA k : LBOutcome(t, <<cats[i], k>>) = "record")]]
    IN  SelectSeq(items, LAMBDA item : item.tickers # <<>>)

LBTickers(results) ==
    [i \in DOMAIN results |->
        [category |-> results[i].category, tickers |-> TickerSeq(results[i].recs)]]

FailedRuns == {key \in GroupKeys(table) : RunsOutcome(table, key) = "error"}

FailedLB == {key \in GroupKeys(table) : LBOutcome(table, key) = "error"}

\* 'all', or a string int() rejects, which the code turns into 'all'
AllProcessed == limit_arg.kind \in {"all", "badstr"}

\* C4 (as claimed): the result sets are those of the same run on the table
\* without the failing tickers, whatever the limit.
C4_AsIfFailingAbsent ==
    BothReturned =>
        /\ runs_results = ExpectedRuns(Without(table, FailedRuns), limit_arg)
        /\ LBTickers(lb_results) = ExpectedLBTickers(Without(table, FailedLB), limit_arg)

\* C4 (amended): a failure inside the try body never aborts the run (a run
\* ends raised only on the limit's TypeError); a failing ticker is in no
\* result set; every other ticker inside the cut has the record it has on
\* its own data; and when all tickers are processed the result sets are
\* those of the run on the table without the failing tickers.
C4_FailureIsolated ==
    /\ (prog = "end" /\ limit_arg.kind # "none" /\ ~MissingColumn(columns)) => BothReturned
    /\ \A key \in FailedRuns : ~InResults(runs_results, key)
    /\ \A key \in FailedLB : ~InResults(lb_results, key)
    /\ BothReturned =>
        /\ \A i \in DOMAIN runs_results :
             LET c == runs_results[i].category
                 cut == ApplyLimit(limit_arg, SortedTickers(table, c)).tickers
             IN  /\ TickerSeq(runs_results[i].recs) =
                        SelectSeq(cut, LAMBDA k : RunsOutcome(table, <<c, k>>) = "record")
                 /\ \A j \in DOMAIN runs_results[i].recs :
                        LET rec == runs_results[i].recs[j]
                        IN  rec = RunsRecord(rec.ticker,
                                    Returns(grouped_data(table, c, rec.ticker)))
        /\ \A c \in Range(categories(table)) :
             LET cut == ApplyLimit(limit_arg, SortedTickers(table, c)).tickers
             IN  /\ TickerSeq(Recs(runs_results, c)) =
                        SelectSeq(cut, LAMBDA k : RunsOutcome(table, <<c, k>>) = "record")
                 /\ TickerSeq(Recs(lb_results, c)) =
                        SelectSeq(cut, LAMBDA k : LBOutcome(table, <<c, k>>) = "record")
        /\ \A i \in DOMAIN lb_results :
             \A j \in DOMAIN lb_results[i].recs :
                LET rec == lb_results[i].recs[j]
                IN  [tag |-> "record", rec |-> rec] \in
                        LBTicker(rec.ticker,
                                 grouped_data(table, lb_results[i].category, rec.ticker))
        /\ AllProcessed =>
             /\ runs_results = ExpectedRuns(Without(table, FailedRuns), LimitAll)
             /\ LBTickers(lb_results) =
                    ExpectedLBTickers(Without(table, FailedLB), LimitAll)

\* a failing first ticker, a recorded second ticker of the same category,
\* and records in a later category, in both result sets
C4_Witness ==
    /\ BothReturned
    /\ <<1, 1>> \in FailedRuns /\ <<1, 1>> \in FailedLB
    /\ Printed("runs", "error", 1) /\ Printed("lb", "error", 1)
    /\ InResults(runs_results, <<1, 2>>) /\ InResults(lb_results, <<1, 2>>)
    /\ HasKey(runs_results, 2) /\ HasKey(lb_results, 2)

\* 'all' or a positive integer (a string int() parses to one is taken as it)
ValidLimit(l) == l.kind = "all" \/ (l.kind \in {"int", "numstr"} /\ l.val >= 1)

\* C5 (as claimed): with any other limit value both calls return, print the
\* invalid-limit diagnostic, and process all tickers of every category.
C5_InvalidLimitFallsBack ==
    (prog = "end" /\ ~MissingColumn(columns) /\ ~ValidLimit(limit_arg)) =>
        /\ BothReturned
        /\ Printed("lb", "invalid_limit", categories(table)[1])
        /\ Printed("runs", "invalid_limit", categories(table)[1])
        /\ runs_results = ExpectedRuns(table, LimitAll)
        /\ LBTickers(lb_results) = ExpectedLBTickers(table, LimitAll)

\* the rows in ascending date order
SortedByDate(t) == SortSeq(t, LAMBDA a, b : a.Date < b.Date)

\* C6 (as claimed): the result of a run does not depend on the row order:
\* it is the result on the same rows sorted by Date.
C6_RowOrderIrrelevant ==
    BothReturned =>
        /\ runs_results = ExpectedRuns(SortedByDate(table), limit_arg)
        /\ \A key \in GroupKeys(table) :
             RunsOutcome(table, key) = "record" =>
                Returns(RowsOfKey(key)) =
                    Returns(grouped_data(SortedByDate(table), key[1], key[2]))

\* C7 (as claimed): a ticker that passes the length and date checks and
\* whose return series has zero variance or at most 60 elements has no
\* record in the Ljung-Box result set, and its error is printed.
C7_DegenerateSeriesSkipped ==
    (prog = "end" /\ lb_status = "returned" /\ AllProcessed) =>
        \A key \in GroupKeys(table) :
            LET rows == RowsOfKey(key)
            IN  (/\ Len(rows) >= 20
                 /\ ~DateUnparseable(rows)
                 /\ (ZeroVariance(Returns(rows)) \/ Len(Returns(rows)) <= 60)) =>
                    /\ ~InResults(lb_results, key)
                    /\ Printed("lb", "error", key[2])

Ascending(s) == \A i \in 1..(Len(s) - 1) : s[i] < s[i + 1]

\* C8: the keys of each result set are in ascending category order as
\* inserted, each category's records are in ascending ticker order, and the
\* ticker list being processed is ascending.
C8_SortedOrder ==
    /\ Ascending([i \in DOMAIN lb_results |-> lb_results[i].category])
    /\ Ascending([i \in DOMAIN runs_results |-> runs_results[i].category])
    /\ \A i \in DOMAIN lb_results : Ascending(TickerSeq(lb_results[i].recs))
    /\ \A i \in DOMAIN runs_results : Ascending(TickerSeq(runs_results[i].recs))
    /\ Ascending(category_tickers)

\* a table whose rows start with the last category's last ticker
C8_Witness ==
    /\ BothReturned
    /\ table[1].Category = 2 /\ table[1].Ticker = 2
    /\ Len(runs_results) = 2 /\ Len(lb_results) = 2
    /\ \A i \in 1..2 : Len(runs_results[i].recs) = 2 /\ Len(lb_results[i].recs) = 2

Positive(i) == returns[i].num > 0

SignChanges == {i \in 2..Len(returns) : Positive(i) # Positive(i - 1)}

\* C9: on a return series of length n >= 2 whose returns are all positive
\* the runs test has runs = 1, n1 = n, n2 = 0, variance = 0, z = 0 and the
\* verdict Random.
C9_AllPositive ==
    (stat # <<>> /\ Len(returns) >= 2 /\ \A i \in DOMAIN returns : Positive(i)) =>
        LET st == stat[1]
        IN  /\ st.runs = 1
            /\ st.n1 = Len(returns) /\ st.n2 = 0
            /\ st.variance.num = 0
            /\ st.z.sign = 0 /\ st.z.sq.num = 0
            /\ st.randomness = "Random"

C9_Witness ==
    /\ stat # <<>> /\ Len(returns) >= 3
    /\ \A i \in DOMAIN returns : Positive(i)
    /\ stat[1].runs = 1 /\ stat[1].randomness = "Random"

\* C10: no return is dropped; a zero return has the sign '-'; n1 counts the
\* returns > 0 and n2 the rest; runs is 1 plus the number of adjacent sign
\* changes, so that a series whose signs alternate has runs = n.
C10_ZeroIsNegative ==
    stat # <<>> =>
        LET st == stat[1]
            n == Len(returns)
        IN  /\ st.n = n /\ Len(st.signs) = n
            /\ \A i \in DOMAIN returns : returns[i].num = 0 => st.signs[i] = "-"
            /\ st.n1 = Cardinality({i \in DOMAIN returns : Positive(i)})
            /\ st.n2 = n - st.n1
            /\ st.runs = 1 + Cardinality(SignChanges)
            /\ (n >= 1 /\ SignChanges = 2..n) => st.runs = n

\* an alternating series with a zero return in it
C10_Witness ==
    /\ stat # <<>> /\ Len(returns) >= 3
    /\ \E i \in DOMAIN returns : returns[i].num = 0
    /\ SignChanges = 2..Len(returns)
    /\ stat[1].runs = Len(returns)
    /\ stat[1].n2 >= 2

LBRecs == Concat([i \in DOMAIN lb_results |-> lb_results[i].recs])

\* C11: a record's verdict is Non-random exactly when its lag-60 p-value is
\* below 0.05 (a NaN p-value is not), and Random otherwise; two records with
\* the same lag-60 p-value have the same verdict whatever their statistics
\* and p-values at the other lags.
C11_VerdictFromLag60 ==
    /\ \A i \in DOMAIN LBRecs :
         LET rec == LBRecs[i]
             p == rec.p_values[60]
         IN  /\ rec.randomness \in {"Random", "Non-random"}
             /\ rec.randomness = "Non-random" <=> (~p.nan /\ p.val < 500)
    /\ \A i \in DOMAIN LBRecs, j \in DOMAIN LBRecs :
         LBRecs[i].p_values[60] = LBRecs[j].p_values[60] =>
            LBRecs[i].randomness = LBRecs[j].randomness

\* two records that agree at lag 60 and differ at every other lag, with the
\* verdict Non-random, beside a record with p = 0.05 at lag 60
C11_Witness ==
    /\ lb_status = "returned"
    /\ \E i \in DOMAIN LBRecs, j \in DOMAIN LBRecs, k \in DOMAIN LBRecs :
         /\ LBRecs[i].p_values[60] = LBRecs[j].p_values[60]
         /\ \A lag \in LagSet \ {60} :
                /\ LBRecs[i].p_values[lag] # LBRecs[j].p_values[lag]
                /\ LBRecs[i].lb_stats[lag] # LBRecs[j].lb_stats[lag]
         /\ LBRecs[i].randomness = "Non-random"
         /\ LBRecs[j].randomness = "Non-random"
         /\ LBRecs[k].p_values[60] = Float(500)
         /\ LBRecs[k].p_values[45] = Float(499)
         /\ LBRecs[k].randomness = "Random"

\* the number of a category's records with p-value < 0.05 at a lag
SignificantCount(category, lag) ==
    LET recs == Recs(lb_results, category)
    IN  Cardinality({i \in DOMAIN recs :
            ~recs[i].p_values[lag].nan /\ recs[i].p_values[lag].val < 500})

\* C12: once the Ljung-Box run has returned, for every category of the result
\* set and every lag of {1, 10, 60} the summary has a row of that category
\* and lag whose significant count is the number of the category's records
\* with p-value < 0.05 at that lag, whose non-significant count is the
\* category total minus it, both over the category total, so that the two
\* proportions sum to 1.
C12_SummaryForEveryCategory ==
    lb_status = "returned" =>
        \A category \in Keys(lb_results), lag \in {1, 10, 60} :
            LET total == Len(Recs(lb_results, category))
                rows == plot_data(lb_results)
            IN  \E i \in DOMAIN rows :
                  /\ rows[i].Category = category
                  /\ rows[i].Lag = lag
                  /\ rows[i].Num_Companies = total
                  /\ rows[i].Significant =
                        Frac(SignificantCount(category, lag), total)
                  /\ rows[i].Non_significant =
                        Frac(total - SignificantCount(category, lag), total)
                  /\ rows[i].Significant.num + rows[i].Non_significant.num
                        = total

\* the tickers of a category in the table, read from the rows
TickersOf(category) ==
    {table[i].Ticker : i \in {j \in DOMAIN table : table[j].Category = category}}

\* the tickers of a category with fewer than n tickers of it below them
FirstTickers(category, n) ==
    {k \in TickersOf(category) :
        Cardinality({m \in TickersOf(category) : m < k}) < n}

\* the records of a result list are at most n, all of the first n tickers
WithinLimit(results, n) ==
    \A i \in DOMAIN results :
        /\ Len(results[i].recs) <= n
        /\ \A j \in DOMAIN results[i].recs :
              results[i].recs[j].ticker \in FirstTickers(results[i].category, n)

\* C13: with an integer limit N >= 1, in every category of either run the
\* tickers processed are exactly the first N of the category in ascending
\* order, whether or not they have 20 observations, and each category's
\* result list holds at most N records, all of those first N tickers.
C13_LimitCutsEveryCategory ==
    (limit_arg.kind \in {"int", "numstr"} /\ limit_arg.val >= 1) =>
        /\ (prog \in {"lb", "runs"} /\ pc = "ticker") =>
              /\ Ascending(category_tickers)
              /\ Range(category_tickers) = FirstTickers(Category, limit_arg.val)
        /\ WithinLimit(lb_results, limit_arg.val)
        /\ WithinLimit(runs_results, limit_arg.val)

\* limit 1 on two categories of two tickers: the first category gives the
\* record of its first ticker only although the second has one too, and the
\* second category gives nothing because its first ticker is short, although
\* its second ticker has a record on its own
C13_Witness ==
    /\ BothReturned
    /\ limit_arg = [kind |-> "int", val |-> 1]
    /\ TickersOf(1) = {1, 2} /\ TickersOf(2) = {1, 2}
    /\ Len(grouped_data(table, 2, 1)) < 20
    /\ \A key \in {<<1, 2>>, <<2, 2>>} :
          LBOutcome(table, key) = "record" /\ RunsOutcome(table, key) = "record"
    /\ TickerSet(lb_results, 1) = {1} /\ TickerSet(runs_results, 1) = {1}
    /\ ~HasKey(lb_results, 2) /\ ~HasKey(runs_results, 2)

====
